---- MODULE Spec2Model ----
(***************************************************************************)
(* Model of the export coordinator, src/app/render/backend/exporter.cpp.   *)
(*                                                                         *)
(* The Exporter lives in one thread and is re-entered once per queued      *)
(* signal.  Every slot of the class is one action; the encoder and the two *)
(* render backends are the environment, answering the requests the         *)
(* Exporter sends them.  Time values (rational in the source) are integer  *)
(* multiples of one tick, so the arithmetic stays exact.                   *)
(***************************************************************************)
EXTENDS Integers, Sequences, FiniteSets, TLC

\* ------------------------------------------------------------------ bounds
MaxLength == 4
MaxTimeBase == 2
MaxHash == 3
MaxStarts == 2
MaxRestartLength == 2

Lengths == 0..MaxLength
TimeBases == 1..MaxTimeBase
Hashes == 1..MaxHash

VARIABLES
  pc,               \* "new" before StartExporting, "started" after it
  length,           \* viewer_node_->Length()
  video_params_,    \* [time_base], set by EnableVideo
  video_done_,
  audio_done_,
  export_status_,
  export_msg_,
  waiting_for_frame_,
  cached_frames_,   \* QMap<rational, QVariant>
  matched_frames_,  \* QMap<QByteArray, QList<rational>>
  video_backend_,   \* "null", "live" or "released" (deleteLater called)
  audio_backend_,
  conn,             \* the signal connections made so far
  time_hash_map,    \* video_backend_->frame_cache()->time_hash_map()
  video_calls,      \* the calls made on the video backend, in order
  audio_calls,      \* the calls made on the audio backend, in order
  hash_due,         \* the video backend owes the hash pass
  frames_due,       \* timestamps the video backend still has to deliver
  audio_due,        \* the audio backend owes its QueueComplete
  encoder_calls,    \* the queued invocations sent to the encoder, in order
  enc_pending,      \* requests the encoder has not answered yet
  encoder_state,    \* "idle", "open", "failed" or "closed"
  sig,              \* emitted signals whose slot has not run yet
  progress,         \* the values emitted through ProgressChanged
  ended,            \* number of ExportEnded emissions
  conversions,      \* number of TextureToFrame calls made by EncodeFrame
  deleted           \* the deferred delete of the Exporter has run

vars == <<pc, length, video_params_, video_done_, audio_done_, export_status_,
          export_msg_, waiting_for_frame_, cached_frames_, matched_frames_,
          video_backend_, audio_backend_, conn, time_hash_map, video_calls,
          audio_calls, hash_due, frames_due, audio_due,
          encoder_calls, enc_pending, encoder_state, sig, progress, ended,
          conversions, deleted>>

\* -------------------------------------------------------------- messages
MsgNotStarted == "Export hasn't started yet"
MsgInitFailed == "Failed to initialize exporter"
MsgOpenFailed == "Failed to open encoder"

NoFrames == [t \in {} |-> 0]
NoMatches == [h \in Hashes |-> <<>>]

\* The timestamps of [0, len) at frame step tb.
FrameTimes(len, tb) == {t \in 0..(len - 1) : t % tb = 0}

\* The value the video backend hands over for timestamp t: a reference to
\* the surface rendered for that time.
RenderedValue(t) == <<"texture", t>>

\* ------------------------------------------------------------ Init
Init ==
  /\ pc = "new"
  /\ length \in Lengths
  /\ video_params_ = [time_base |-> 1]
  /\ video_done_ = TRUE
  /\ audio_done_ = TRUE
  /\ export_status_ = FALSE
  /\ export_msg_ = MsgNotStarted
  /\ waiting_for_frame_ = 0
  /\ cached_frames_ = NoFrames
  /\ matched_frames_ = NoMatches
  /\ video_backend_ = "null"
  /\ audio_backend_ = "null"
  /\ conn = [OpenSucceeded |-> 0, OpenFailed |-> 0, AudioComplete |-> 0,
             EncoderClosed |-> 0, VideoHashesComplete |-> 0,
             FrameRendered |-> 0, AudioRendered |-> 0]
  /\ time_hash_map = NoFrames
  /\ video_calls = <<>>
  /\ audio_calls = <<>>
  /\ hash_due = FALSE
  /\ frames_due = {}
  /\ audio_due = FALSE
  /\ encoder_calls = <<>>
  /\ enc_pending = [Open |-> 0, WriteAudio |-> 0, Close |-> 0]
  /\ encoder_state = "idle"
  /\ sig = [OpenSucceeded |-> 0, OpenFailed |-> 0, AudioComplete |-> 0,
            Closed |-> 0, VideoQueueComplete |-> 0, AudioQueueComplete |-> 0]
  /\ progress = <<>>
  /\ ended = 0
  /\ conversions = 0
  /\ deleted = FALSE

\* ------------------------------------------------- frame conversion
\* TextureToFrame: download of the rendered surface into a frame that still
\* has the surface's own pixel format, associated alpha and scene colours.
TextureToFrame(value) ==
  [pixels |-> value, format |-> "native", alpha |-> "associated",
   color |-> "reference", timestamp |-> -1]

\* PixelService::ConvertPixelFormat to PIX_FMT_RGBA32F when the format differs.
ConvertPixelFormat(frame) ==
  IF frame.format # "RGBA32F" THEN [frame EXCEPT !.format = "RGBA32F"] ELSE frame

\* ColorManager::DisassociateAlpha
DisassociateAlpha(frame) == [frame EXCEPT !.alpha = "unassociated"]

\* color_processor_->ConvertFrame
ConvertFrame(frame) == [frame EXCEPT !.color = "display"]

\* The frame handed to WriteFrame for one rendered value at timestamp t.
ConvertedFrame(value, t) ==
  [ConvertFrame(DisassociateAlpha(ConvertPixelFormat(TextureToFrame(value))))
     EXCEPT !.timestamp = t]

\* qRound(100.0 * (time / Length)): round half away from zero, for time >= 0.
Progress(time, len) == (200 * time + len) \div (2 * len)

\* The element of a one-element set.  Only({F(x) : x \in {e}}) is F(e) with
\* e evaluated once, which is how the code runs: each statement works on the
\* state the previous one left.
Only(S) == CHOOSE x \in S : TRUE

\* -------------------------------------------------- ExportSucceeded
\* Mutants of the done check: no check at all, and one stream being enough.
BothDoneUnchecked(audio_done, video_done) == TRUE
BothDoneEither(audio_done, video_done) == audio_done \/ video_done

\* The done check of ExportSucceeded: it returns early unless this holds.
BothDone(audio_done, video_done) == ~(~audio_done \/ ~video_done)

\* s is the record of the Exporter state a slot works on.
ExportSucceeded(s) ==
  IF ~BothDone(s.audio_done_, s.video_done_) THEN s
  ELSE [s EXCEPT
          !.video_backend_ = IF @ # "null" THEN "released" ELSE @,
          !.export_status_ = TRUE,
          !.conn = [@ EXCEPT !.EncoderClosed = @ + 1],
          !.encoder_calls = Append(@, [call |-> "Close"]),
          !.enc_pending = [@ EXCEPT !.Close = @ + 1]]

\* ------------------------------------------------------ EncodeFrame
Without(f, k) == [x \in (DOMAIN f) \ {k} |-> f[x]]
With(f, k, v) == [x \in (DOMAIN f) \cup {k} |-> IF x = k THEN v ELSE f[x]]

\* Mutant of the loop: the frame is stamped with the time its value was
\* rendered for, not with the expected timestamp.
RECURSIVE EncodeLoopSourceTime(_, _)
EncodeLoopSourceTime(s, value) ==
  LET frame == ConvertedFrame(value, value[2])
      next == s.waiting_for_frame_ + video_params_.time_base
      s1 == [s EXCEPT
               !.encoder_calls = Append(@, [call |-> "WriteFrame", frame |-> frame]),
               !.conversions = @ + 1,
               !.waiting_for_frame_ = next,
               !.progress = Append(@, Progress(next, length))]
  IN IF next \in DOMAIN s1.cached_frames_
       THEN Only({EncodeLoopSourceTime(s2, s.cached_frames_[next]) :
                    s2 \in {[s1 EXCEPT !.cached_frames_ = Without(@, next)]}})
       ELSE s1

\* Mutant of the loop: the cached entry is dropped but its value is not
\* taken, so the loop goes on with the value it was called with.
RECURSIVE EncodeLoopStale(_, _)
EncodeLoopStale(s, value) ==
  LET frame == ConvertedFrame(value, s.waiting_for_frame_)
      next == s.waiting_for_frame_ + video_params_.time_base
      s1 == [s EXCEPT
               !.encoder_calls = Append(@, [call |-> "WriteFrame", frame |-> frame]),
               !.conversions = @ + 1,
               !.waiting_for_frame_ = next,
               !.progress = Append(@, Progress(next, length))]
  IN IF next \in DOMAIN s1.cached_frames_
       THEN Only({EncodeLoopStale(s2, value) :
                    s2 \in {[s1 EXCEPT !.cached_frames_ = Without(@, next)]}})
       ELSE s1

\* Mutant of the loop: one frame is written per call, the buffered frames
\* that follow it are left in the cache.
EncodeLoopOnce(s, value) ==
  [s EXCEPT
     !.encoder_calls = Append(@, [call |-> "WriteFrame",
                                  frame |-> ConvertedFrame(value, s.waiting_for_frame_)]),
     !.conversions = @ + 1,
     !.waiting_for_frame_ = @ + video_params_.time_base,
     !.progress = Append(@, Progress(s.waiting_for_frame_ + video_params_.time_base,
                                     length))]

\* The do-while loop of EncodeFrame: write value at waiting_for_frame_, step
\* the expected timestamp, and go on with the cached frame of the new
\* expected timestamp as long as there is one.
RECURSIVE EncodeLoop(_, _)
EncodeLoop(s, value) ==
  LET frame == ConvertedFrame(value, s.waiting_for_frame_)
      next == s.waiting_for_frame_ + video_params_.time_base
      s1 == [s EXCEPT
               !.encoder_calls = Append(@, [call |-> "WriteFrame", frame |-> frame]),
               !.conversions = @ + 1,
               !.waiting_for_frame_ = next,
               !.progress = Append(@, Progress(next, length))]
  IN IF next \in DOMAIN s1.cached_frames_
       THEN Only({EncodeLoop(s2, s.cached_frames_[next]) :
                    s2 \in {[s1 EXCEPT !.cached_frames_ = Without(@, next)]}})
       ELSE s1

\* Mutant of the end test: the stream ends one step early.
VideoFinishedEarly(waiting, len) == waiting + video_params_.time_base >= len

\* Mutant of the end test: reaching the timeline length does not end the
\* stream.
VideoFinishedStrict(waiting, len) == waiting > len

\* The test that ends the video stream after the loop.
VideoFinished(waiting, len) == waiting >= len

\* Mutant of the entry test: a frame older than the expected one is written
\* as well.
EncodeFrameLate(s, time, value) ==
  IF time <= s.waiting_for_frame_
    THEN Only({IF VideoFinished(s1.waiting_for_frame_, length)
                 THEN ExportSucceeded([s1 EXCEPT !.video_done_ = TRUE])
                 ELSE s1 : s1 \in {EncodeLoop(s, value)}})
    ELSE [s EXCEPT !.cached_frames_ = With(@, time, value)]

\* EncodeFrame: write the frame and the buffered frames that follow it when
\* it is the expected one, buffer it otherwise.
EncodeFrame(s, time, value) ==
  IF time = s.waiting_for_frame_
    THEN Only({IF VideoFinished(s1.waiting_for_frame_, length)
                 THEN ExportSucceeded([s1 EXCEPT !.video_done_ = TRUE])
                 ELSE s1 : s1 \in {EncodeLoop(s, value)}})
    ELSE [s EXCEPT !.cached_frames_ = With(@, time, value)]

\* Mutant: the rendered value is not replayed to the duplicates.
MatchingTimesNone(matched, map_hash) == <<>>

\* The times FrameRendered replays the rendered value to.
MatchingTimes(matched, map_hash) == matched[map_hash]

\* FrameRendered's calls of EncodeFrame for the duplicates, in list order.
RECURSIVE EncodeMatching(_, _, _)
EncodeMatching(s, times, value) ==
  IF times = <<>> THEN s
  ELSE Only({EncodeMatching(s1, Tail(times), value) :
               s1 \in {EncodeFrame(s, Head(times), value)}})

\* The Exporter state the slots above read and write.
Self ==
  [video_done_ |-> video_done_, audio_done_ |-> audio_done_,
   export_status_ |-> export_status_, waiting_for_frame_ |-> waiting_for_frame_,
   cached_frames_ |-> cached_frames_, video_backend_ |-> video_backend_,
   conn |-> conn, encoder_calls |-> encoder_calls, enc_pending |-> enc_pending,
   progress |-> progress, conversions |-> conversions]

\* Assignment of a slot's result to the next state.
Store(s) ==
  /\ video_done_' = s.video_done_
  /\ audio_done_' = s.audio_done_
  /\ export_status_' = s.export_status_
  /\ waiting_for_frame_' = s.waiting_for_frame_
  /\ cached_frames_' = s.cached_frames_
  /\ video_backend_' = s.video_backend_
  /\ conn' = s.conn
  /\ encoder_calls' = s.encoder_calls
  /\ enc_pending' = s.enc_pending
  /\ progress' = s.progress
  /\ conversions' = s.conversions

\* ------------------------------------------------------- time ranges
\* TimeRangeList::RemoveTimeRange: subtract [in, out) from every range of the
\* list, keeping the non-empty pieces.
RECURSIVE RemoveTimeRange(_, _, _)
RemoveTimeRange(ranges, in, out) ==
  IF ranges = <<>> THEN <<>>
  ELSE LET r == Head(ranges)
           left == IF r.in < in THEN <<[in |-> r.in, out |-> in]>> ELSE <<>>
           right == IF out < r.out THEN <<[in |-> out, out |-> r.out]>> ELSE <<>>
           kept == IF r.out <= in \/ out <= r.in THEN <<r>> ELSE left \o right
       IN kept \o RemoveTimeRange(Tail(ranges), in, out)

\* The timestamps a list of ranges covers at frame step tb.
Covered(ranges, tb) ==
  {t \in 0..MaxLength : t % tb = 0 /\ \E k \in 1..Len(ranges) :
                                         ranges[k].in <= t /\ t < ranges[k].out}

\* --------------------------------------------- VideoHashesComplete, dedup
\* The keys of a QMap in iteration order (ascending).
RECURSIVE SortedKeys(_)
SortedKeys(S) ==
  IF S = {} THEN <<>>
  ELSE LET m == CHOOSE x \in S : \A y \in S : x <= y
       IN <<m>> \o SortedKeys(S \ {m})

RemoveAt(seq, k) == SubSeq(seq, 1, k - 1) \o SubSeq(seq, k + 1, Len(seq))

IndexOf(seq, x) == CHOOSE k \in 1..Len(seq) : seq[k] = x

\* Mutant of the duplicate test: only the next timestamp is compared.
IsDuplicateAdjacent(ikey, jkey, hashes) ==
  /\ ikey # jkey
  /\ hashes[ikey] = hashes[jkey]
  /\ jkey = ikey + video_params_.time_base

\* Which of two entries with one hash the inner loop treats as the duplicate:
\* the entry under j.
IsDuplicate(ikey, jkey, hashes) == ikey # jkey /\ hashes[ikey] = hashes[jkey]

\* Mutant of the inner loop: the matched entry is recorded and its range is
\* removed, but the entry stays in the copied map (no erase).
RECURSIVE DedupInnerKeepsEntry(_, _, _, _)
DedupInnerKeepsEntry(d, ikey, j, hashes) ==
  IF j > Len(d.keys) THEN d
  ELSE LET jkey == d.keys[j]
       IN IF IsDuplicate(ikey, jkey, hashes)
            THEN Only({DedupInnerKeepsEntry(d1, ikey, j1, hashes) :
                   d1 \in {[keys |-> d.keys,
                            ranges |-> RemoveTimeRange(d.ranges, jkey,
                                               jkey + video_params_.time_base),
                            matched |-> [d.matched EXCEPT
                                           ![hashes[ikey]] = Append(@, jkey)]]},
                   j1 \in {j + 1}})
            ELSE Only({DedupInnerKeepsEntry(d, ikey, j1, hashes) : j1 \in {j + 1}})

\* The inner while loop for the entry ikey: j walks the remaining keys from
\* the beginning; d holds keys (the copied map's remaining keys), ranges and
\* matched.
RECURSIVE DedupInner(_, _, _, _)
DedupInner(d, ikey, j, hashes) ==
  IF j > Len(d.keys) THEN d
  ELSE LET jkey == d.keys[j]
       IN IF IsDuplicate(ikey, jkey, hashes)
            THEN Only({DedupInner(d1, ikey, j, hashes) : d1 \in {
                   [keys |-> RemoveAt(d.keys, j),
                    ranges |-> RemoveTimeRange(d.ranges, jkey,
                                               jkey + video_params_.time_base),
                    matched |-> [d.matched EXCEPT ![hashes[ikey]] = Append(@, jkey)]]}})
            ELSE Only({DedupInner(d, ikey, j1, hashes) : j1 \in {j + 1}})

\* The outer for loop: i walks the keys that are still in the copied map.
RECURSIVE DedupOuter(_, _, _)
DedupOuter(d, i, hashes) ==
  IF i > Len(d.keys) THEN d
  ELSE Only({Only({Only({DedupOuter(d1, i1, hashes) :
                           i1 \in {IndexOf(d1.keys, ikey) + 1}}) :
                     d1 \in {DedupInner(d, ikey, 1, hashes)}}) :
               ikey \in {d.keys[i]}})

\* The render ranges and the duplicate map VideoHashesComplete computes.
Dedup(hashes, matched, len) ==
  Only({DedupOuter(d, 1, hashes) :
          d \in {[keys |-> SortedKeys(DOMAIN hashes),
                  ranges |-> <<[in |-> 0, out |-> len]>>,
                  matched |-> matched]}})

\* ------------------------------------------------------------ actions
\* EnableVideo, called before StartExporting, with the frame step tb.
EnableVideo(tb) ==
  /\ pc = "new"
  /\ video_done_
  /\ video_params_' = [time_base |-> tb]
  /\ video_done_' = FALSE
  /\ UNCHANGED <<pc, length, audio_done_, export_status_, export_msg_,
                 waiting_for_frame_, cached_frames_, matched_frames_,
                 video_backend_, audio_backend_, conn, time_hash_map,
                 video_calls, audio_calls, hash_due, frames_due, audio_due,
                 encoder_calls, enc_pending, sig, progress, ended, deleted>>
  /\ UNCHANGED <<encoder_state, conversions>>

\* EnableAudio, called before StartExporting.
EnableAudio ==
  /\ pc = "new"
  /\ audio_done_
  /\ audio_done_' = FALSE
  /\ UNCHANGED <<pc, length, video_params_, video_done_, export_status_,
                 export_msg_, waiting_for_frame_, cached_frames_,
                 matched_frames_, video_backend_, audio_backend_, conn,
                 time_hash_map, video_calls, audio_calls, hash_due, frames_due,
                 audio_due, encoder_calls, enc_pending, sig, progress, ended,
                 deleted>>
  /\ UNCHANGED <<encoder_state, conversions>>

\* ExportFailed: emit ExportEnded.
ExportFailed == ended' = ended + 1

\* Initialize() of the concrete exporter: creates both backends when it
\* succeeds.
Initialize(ok) ==
  /\ video_backend_' = IF ok THEN "live" ELSE video_backend_
  /\ audio_backend_' = IF ok THEN "live" ELSE audio_backend_

\* The body of StartExporting; ok is the result of Initialize().  Nothing in
\* it tests whether the Exporter was started before.
Start(ok) ==
  /\ pc' = "started"
  /\ export_status_' = FALSE
  /\ Initialize(ok)
  /\ IF ~ok
       THEN /\ export_msg_' = MsgInitFailed
            /\ ExportFailed
            /\ UNCHANGED <<waiting_for_frame_, video_calls, audio_calls, conn,
                           encoder_calls, enc_pending>>
       ELSE /\ IF ~video_done_
                 THEN /\ video_calls' = video_calls \o
                           <<[call |-> "SetViewerNode"],
                             [call |-> "SetParameters",
                              time_base |-> video_params_.time_base]>>
                      /\ waiting_for_frame_' = 0
                 ELSE UNCHANGED <<video_calls, waiting_for_frame_>>
            /\ IF ~audio_done_
                 THEN audio_calls' = audio_calls \o
                        <<[call |-> "SetViewerNode"], [call |-> "SetParameters"]>>
                 ELSE UNCHANGED audio_calls
            /\ conn' = [conn EXCEPT !.OpenSucceeded = @ + 1,
                                    !.OpenFailed = @ + 1,
                                    !.AudioComplete = @ + 1]
            /\ encoder_calls' = Append(encoder_calls, [call |-> "Open"])
            /\ enc_pending' = [enc_pending EXCEPT !.Open = @ + 1]
            /\ UNCHANGED <<export_msg_, ended>>
  /\ UNCHANGED <<length, video_params_, video_done_, audio_done_,
                 cached_frames_, matched_frames_, time_hash_map, hash_due,
                 frames_due, audio_due, sig, progress, deleted>>
  /\ UNCHANGED <<encoder_state, conversions>>

\* The first call of StartExporting on an Exporter.
StartExporting(ok) ==
  /\ pc = "new"
  /\ Start(ok)

\* The number of StartExporting calls that got as far as the Open request.
OpenRequests ==
  Cardinality({k \in 1..Len(encoder_calls) : encoder_calls[k].call = "Open"})

\* A further call of StartExporting on an Exporter that was started before
\* and still exists.
StartExportingAgain(ok) ==
  /\ pc = "started"
  /\ ~deleted
  /\ OpenRequests + ended < MaxStarts
  /\ Start(ok)

\* The encoder runs the queued Open and reports the result.
EncoderOpen(ok) ==
  /\ enc_pending.Open > 0
  /\ enc_pending' = [enc_pending EXCEPT !.Open = @ - 1]
  /\ encoder_state' = IF ok THEN "open" ELSE "failed"
  /\ sig' = IF ok THEN [sig EXCEPT !.OpenSucceeded = @ + conn.OpenSucceeded]
                  ELSE [sig EXCEPT !.OpenFailed = @ + conn.OpenFailed]
  /\ UNCHANGED <<pc, length, video_params_, video_done_, audio_done_,
                 export_status_, export_msg_, waiting_for_frame_,
                 cached_frames_, matched_frames_, video_backend_,
                 audio_backend_, conn, time_hash_map, video_calls, audio_calls,
                 hash_due, frames_due, audio_due, encoder_calls, progress,
                 ended, deleted>>
  /\ UNCHANGED conversions

\* Mutant: the first pass is started in render mode.
FirstPassModeRender == "kRenderOnly"

\* The operating mode EncoderOpenedSuccessfully sets for the first pass.
FirstPassMode == "kHashOnly"

EncoderOpenedSuccessfully ==
  /\ sig.OpenSucceeded > 0
  /\ ~deleted
  /\ sig' = [sig EXCEPT !.OpenSucceeded = @ - 1]
  /\ IF ~video_done_
       THEN /\ video_calls' = video_calls \o
                 <<[call |-> "SetOperatingMode", mode |-> FirstPassMode],
                   [call |-> "InvalidateCache", in |-> 0, out |-> length]>>
            /\ hash_due' = TRUE
       ELSE UNCHANGED <<video_calls, hash_due>>
  /\ IF ~audio_done_
       THEN /\ audio_calls' = Append(audio_calls,
                 [call |-> "InvalidateCache", in |-> 0, out |-> length])
            /\ audio_due' = TRUE
       ELSE UNCHANGED <<audio_calls, audio_due>>
  /\ conn' = [conn EXCEPT
                !.VideoHashesComplete = IF ~video_done_ THEN @ + 1 ELSE @,
                !.AudioRendered = IF ~audio_done_ THEN @ + 1 ELSE @]
  /\ UNCHANGED <<pc, length, video_params_, video_done_, audio_done_,
                 export_status_, export_msg_, waiting_for_frame_,
                 cached_frames_, matched_frames_, video_backend_,
                 audio_backend_, time_hash_map, frames_due, encoder_calls,
                 enc_pending, progress, ended, deleted>>
  /\ UNCHANGED <<encoder_state, conversions>>

\* Mutant: the message is set but ExportFailed is not called.
EncoderOpenFailedSilent ==
  /\ sig.OpenFailed > 0
  /\ ~deleted
  /\ sig' = [sig EXCEPT !.OpenFailed = @ - 1]
  /\ export_msg_' = MsgOpenFailed
  /\ UNCHANGED <<pc, length, video_params_, video_done_, audio_done_,
                 export_status_, waiting_for_frame_, cached_frames_,
                 matched_frames_, video_backend_, audio_backend_, conn,
                 time_hash_map, video_calls, audio_calls, hash_due, frames_due,
                 audio_due, encoder_calls, enc_pending, progress, deleted,
                 ended, encoder_state, conversions>>

EncoderOpenFailed ==
  /\ sig.OpenFailed > 0
  /\ ~deleted
  /\ sig' = [sig EXCEPT !.OpenFailed = @ - 1]
  /\ export_msg_' = MsgOpenFailed
  /\ ExportFailed
  /\ UNCHANGED <<pc, length, video_params_, video_done_, audio_done_,
                 export_status_, waiting_for_frame_, cached_frames_,
                 matched_frames_, video_backend_, audio_backend_, conn,
                 time_hash_map, video_calls, audio_calls, hash_due, frames_due,
                 audio_due, encoder_calls, enc_pending, progress, deleted>>
  /\ UNCHANGED <<encoder_state, conversions>>

\* The video backend finishes the hash-only pass over [0, Length): the
\* frame cache holds one hash per timestamp and QueueComplete is emitted.
\* The hash of a timestamp is a function of the timeline's content: a pass
\* over a timeline that was hashed before finds the same hashes.
VideoHashPass ==
  /\ hash_due
  /\ video_backend_ = "live"
  /\ hash_due' = FALSE
  /\ \E hashes \in
        IF DOMAIN time_hash_map = FrameTimes(length, video_params_.time_base)
          THEN {time_hash_map}
          ELSE [FrameTimes(length, video_params_.time_base) -> Hashes] :
       time_hash_map' = hashes
  /\ sig' = [sig EXCEPT !.VideoQueueComplete = @ + conn.VideoHashesComplete]
  /\ UNCHANGED <<pc, length, video_params_, video_done_, audio_done_,
                 export_status_, export_msg_, waiting_for_frame_,
                 cached_frames_, matched_frames_, video_backend_,
                 audio_backend_, conn, video_calls, audio_calls, frames_due,
                 audio_due, encoder_calls, enc_pending, progress, ended,
                 deleted>>
  /\ UNCHANGED <<encoder_state, conversions>>

\* The InvalidateCache calls of the final foreach, one per remaining range.
RenderCalls(ranges) ==
  [k \in 1..Len(ranges) |->
     [call |-> "InvalidateCache", in |-> ranges[k].in, out |-> ranges[k].out]]

VideoHashesComplete ==
  /\ sig.VideoQueueComplete > 0
  /\ ~deleted
  /\ sig' = [sig EXCEPT !.VideoQueueComplete = @ - 1]
  /\ \E d \in {Dedup(time_hash_map, matched_frames_, length)} :
        /\ matched_frames_' = d.matched
        /\ video_calls' = video_calls \o
             <<[call |-> "SetOperatingMode", mode |-> "kRenderOnly"],
               [call |-> "SetOnlySignalLastFrameRequested"]>> \o
             RenderCalls(d.ranges)
        /\ frames_due' = frames_due \cup Covered(d.ranges, video_params_.time_base)
  /\ conn' = [conn EXCEPT !.VideoHashesComplete = 0, !.FrameRendered = @ + 1]
  /\ UNCHANGED <<pc, length, video_params_, video_done_, audio_done_,
                 export_status_, export_msg_, waiting_for_frame_,
                 cached_frames_, video_backend_, audio_backend_,
                 time_hash_map, audio_calls, hash_due, audio_due,
                 encoder_calls, enc_pending, progress, ended, deleted>>
  /\ UNCHANGED <<encoder_state, conversions>>

\* The body of the slot FrameRendered, run n times in a row: once for every
\* connection of CachedFrameReady to it.
RECURSIVE FrameRenderedSlot(_, _, _, _)
FrameRenderedSlot(s, n, time, times) ==
  IF n = 0 THEN s
  ELSE Only({FrameRenderedSlot(s2, n - 1, time, times) :
               s2 \in {EncodeMatching(s1, times, RenderedValue(time)) :
                         s1 \in {EncodeFrame(s, time, RenderedValue(time))}}})

\* The video backend delivers the rendered frame of timestamp time
\* (CachedFrameReady) and the slot FrameRendered runs.
FrameRendered(time) ==
  /\ time \in frames_due
  /\ conn.FrameRendered > 0
  /\ video_backend_ = "live"
  /\ ~deleted
  /\ frames_due' = frames_due \ {time}
  /\ LET map_hash == time_hash_map[time]
     IN \E s0 \in {Self} :
        \E times \in {MatchingTimes(matched_frames_, map_hash)} :
        \E s1 \in {FrameRenderedSlot(s0, conn.FrameRendered, time, times)} :
          Store(s1)
  /\ UNCHANGED <<pc, length, video_params_, export_msg_, matched_frames_,
                 audio_backend_, time_hash_map, video_calls, audio_calls,
                 hash_due, audio_due, sig, ended, deleted>>
  /\ UNCHANGED encoder_state

\* The audio backend finishes rendering the range and emits QueueComplete.
AudioQueueComplete ==
  /\ audio_due
  /\ audio_backend_ = "live"
  /\ audio_due' = FALSE
  /\ sig' = [sig EXCEPT !.AudioQueueComplete = @ + conn.AudioRendered]
  /\ UNCHANGED <<pc, length, video_params_, video_done_, audio_done_,
                 export_status_, export_msg_, waiting_for_frame_,
                 cached_frames_, matched_frames_, video_backend_,
                 audio_backend_, conn, time_hash_map, video_calls, audio_calls,
                 hash_due, frames_due, encoder_calls, enc_pending, progress,
                 ended, deleted>>
  /\ UNCHANGED <<encoder_state, conversions>>

\* Mutant: the audio backend is not released after the write.
AudioRenderedKeepsBackend ==
  /\ sig.AudioQueueComplete > 0
  /\ ~deleted
  /\ sig' = [sig EXCEPT !.AudioQueueComplete = @ - 1]
  /\ audio_calls' = audio_calls \o <<[call |-> "CachePathName"], [call |-> "params"]>>
  /\ encoder_calls' = Append(encoder_calls, [call |-> "WriteAudio"])
  /\ enc_pending' = [enc_pending EXCEPT !.WriteAudio = @ + 1]
  /\ UNCHANGED audio_backend_
  /\ UNCHANGED <<pc, length, video_params_, video_done_, audio_done_,
                 export_status_, export_msg_, waiting_for_frame_,
                 cached_frames_, matched_frames_, video_backend_, conn,
                 time_hash_map, video_calls, hash_due, frames_due, audio_due,
                 progress, ended, deleted>>
  /\ UNCHANGED <<encoder_state, conversions>>

\* The slot AudioRendered: query the cache path, queue WriteAudio, release
\* the audio backend.
AudioRendered ==
  /\ sig.AudioQueueComplete > 0
  /\ ~deleted
  /\ sig' = [sig EXCEPT !.AudioQueueComplete = @ - 1]
  /\ audio_calls' = audio_calls \o <<[call |-> "CachePathName"], [call |-> "params"]>>
  /\ encoder_calls' = Append(encoder_calls, [call |-> "WriteAudio"])
  /\ enc_pending' = [enc_pending EXCEPT !.WriteAudio = @ + 1]
  /\ audio_backend_' = "released"
  /\ UNCHANGED <<pc, length, video_params_, video_done_, audio_done_,
                 export_status_, export_msg_, waiting_for_frame_,
                 cached_frames_, matched_frames_, video_backend_, conn,
                 time_hash_map, video_calls, hash_due, frames_due, audio_due,
                 progress, ended, deleted>>
  /\ UNCHANGED <<encoder_state, conversions>>

\* The encoder runs the queued WriteAudio and emits AudioComplete.
EncoderWriteAudio ==
  /\ enc_pending.WriteAudio > 0
  /\ enc_pending' = [enc_pending EXCEPT !.WriteAudio = @ - 1]
  /\ sig' = [sig EXCEPT !.AudioComplete = @ + conn.AudioComplete]
  /\ UNCHANGED <<pc, length, video_params_, video_done_, audio_done_,
                 export_status_, export_msg_, waiting_for_frame_,
                 cached_frames_, matched_frames_, video_backend_,
                 audio_backend_, conn, time_hash_map, video_calls, audio_calls,
                 hash_due, frames_due, audio_due, encoder_calls, progress,
                 ended, deleted>>
  /\ UNCHANGED <<encoder_state, conversions>>

AudioEncodeComplete ==
  /\ sig.AudioComplete > 0
  /\ ~deleted
  /\ sig' = [sig EXCEPT !.AudioComplete = @ - 1]
  /\ \E s1 \in {[Self EXCEPT !.audio_done_ = TRUE]} : Store(ExportSucceeded(s1))
  /\ UNCHANGED <<pc, length, video_params_, export_msg_, matched_frames_,
                 audio_backend_, time_hash_map, video_calls, audio_calls,
                 hash_due, frames_due, audio_due, ended, deleted>>
  /\ UNCHANGED encoder_state

\* The encoder runs the queued Close and emits Closed.
EncoderClose ==
  /\ enc_pending.Close > 0
  /\ enc_pending' = [enc_pending EXCEPT !.Close = @ - 1]
  /\ encoder_state' = "closed"
  /\ sig' = [sig EXCEPT !.Closed = @ + conn.EncoderClosed]
  /\ UNCHANGED <<pc, length, video_params_, video_done_, audio_done_,
                 export_status_, export_msg_, waiting_for_frame_,
                 cached_frames_, matched_frames_, video_backend_,
                 audio_backend_, conn, time_hash_map, video_calls, audio_calls,
                 hash_due, frames_due, audio_due, encoder_calls, progress,
                 ended, deleted>>
  /\ UNCHANGED conversions

EncoderClosed ==
  /\ sig.Closed > 0
  /\ ~deleted
  /\ sig' = [sig EXCEPT !.Closed = @ - 1]
  /\ progress' = Append(progress, 100)
  /\ ended' = ended + 1
  /\ UNCHANGED <<pc, length, video_params_, video_done_, audio_done_,
                 export_status_, export_msg_, waiting_for_frame_,
                 cached_frames_, matched_frames_, video_backend_,
                 audio_backend_, conn, time_hash_map, video_calls, audio_calls,
                 hash_due, frames_due, audio_due, encoder_calls, enc_pending,
                 deleted>>
  /\ UNCHANGED <<encoder_state, conversions>>

\* The deferred delete the constructor connects to ExportEnded: once it has
\* run, no slot of the Exporter runs any more.
DeleteLater ==
  /\ ended > 0
  /\ ~deleted
  /\ deleted' = TRUE
  /\ UNCHANGED <<pc, length, video_params_, video_done_, audio_done_,
                 export_status_, export_msg_, waiting_for_frame_,
                 cached_frames_, matched_frames_, video_backend_,
                 audio_backend_, conn, time_hash_map, video_calls, audio_calls,
                 hash_due, frames_due, audio_due, encoder_calls, enc_pending,
                 sig, progress, ended>>
  /\ UNCHANGED <<encoder_state, conversions>>

Next ==
  \/ \E tb \in TimeBases : EnableVideo(tb)
  \/ EnableAudio
  \/ \E ok \in BOOLEAN : StartExporting(ok)
  \/ \E ok \in BOOLEAN : EncoderOpen(ok)
  \/ EncoderOpenedSuccessfully
  \/ EncoderOpenFailed
  \/ VideoHashPass
  \/ VideoHashesComplete
  \/ \E time \in frames_due : FrameRendered(time)
  \/ AudioQueueComplete
  \/ AudioRendered
  \/ EncoderWriteAudio
  \/ AudioEncodeComplete
  \/ EncoderClose
  \/ EncoderClosed
  \/ DeleteLater

Spec == Init /\ [][Next]_vars

\* The Exporter with a user who enables video only and may call
\* StartExporting again.
NextRestart ==
  \/ \E tb \in TimeBases : EnableVideo(tb)
  \/ \E ok \in BOOLEAN : StartExporting(ok)
  \/ \E ok \in BOOLEAN : StartExportingAgain(ok)
  \/ \E ok \in BOOLEAN : EncoderOpen(ok)
  \/ EncoderOpenedSuccessfully
  \/ EncoderOpenFailed
  \/ VideoHashPass
  \/ VideoHashesComplete
  \/ \E time \in frames_due : FrameRendered(time)
  \/ EncoderClose
  \/ EncoderClosed
  \/ DeleteLater

\* The restarted jobs are explored on the shortest timelines.
InitRestart == Init /\ length <= MaxRestartLength

RestartSpec == InitRestart /\ [][NextRestart]_vars

\* The steps of the encoder, the backends and the Exporter's event loop:
\* everything but the calls of the Exporter's user.
Callbacks ==
  \/ \E ok \in BOOLEAN : EncoderOpen(ok)
  \/ EncoderOpenedSuccessfully
  \/ EncoderOpenFailed
  \/ VideoHashPass
  \/ VideoHashesComplete
  \/ \E time \in frames_due : FrameRendered(time)
  \/ AudioQueueComplete
  \/ AudioRendered
  \/ EncoderWriteAudio
  \/ AudioEncodeComplete
  \/ EncoderClose
  \/ EncoderClosed

\* The event loops run every queued slot and the encoder and the backends
\* answer every request: the job does not stop while one of these steps is
\* possible.  The user of the Exporter is under no obligation.
Fairness == WF_vars(Callbacks)

FairSpec == Init /\ [][Next]_vars /\ Fairness

\* ------------------------------------------------------ observations
IsWriteFrame(c) == c.call = "WriteFrame"
IsInvalidate(c) == c.call = "InvalidateCache"

\* The frames handed to the encoder, in the order of the WriteFrame calls.
WrittenFrames ==
  LET w == SelectSeq(encoder_calls, IsWriteFrame)
  IN [k \in 1..Len(w) |-> w[k].frame]

EncoderCalled(name) == \E k \in 1..Len(encoder_calls) : encoder_calls[k].call = name

\* The streams the job was started with.
VideoEnabled == \E k \in 1..Len(video_calls) : video_calls[k].call = "SetParameters"
AudioEnabled == \E k \in 1..Len(audio_calls) : audio_calls[k].call = "SetParameters"

\* The operating mode the video backend was in when it got call k.
RECURSIVE ModeAt(_)
ModeAt(k) ==
  IF k = 0 THEN "none"
  ELSE IF video_calls[k].call = "SetOperatingMode" THEN video_calls[k].mode
  ELSE ModeAt(k - 1)

\* The InvalidateCache calls the video backend got in the given mode.
VideoRequests(mode) ==
  {k \in 1..Len(video_calls) : IsInvalidate(video_calls[k]) /\ ModeAt(k) = mode}

\* The timestamps the render-only requests cover.
RenderCovered ==
  {t \in FrameTimes(length, video_params_.time_base) :
     \E k \in VideoRequests("kRenderOnly") :
        video_calls[k].in <= t /\ t < video_calls[k].out}

\* VideoHashesComplete has run.
HashesComplete == conn.FrameRendered > 0

Range(seq) == {seq[k] : k \in 1..Len(seq)}

\* The earliest timestamp with the hash of t.
Primary(t) ==
  CHOOSE p \in DOMAIN time_hash_map :
    /\ time_hash_map[p] = time_hash_map[t]
    /\ \A q \in DOMAIN time_hash_map : time_hash_map[q] = time_hash_map[t] => p <= q

Content(frame) == [frame EXCEPT !.timestamp = 0]

Succeeded == ended > 0 /\ export_status_

\* ----------------------------------------------------------- claims
\* C1: the WriteFrame requests go to the encoder in strictly increasing
\* timestamp order, each exactly one time-base step after the previous one,
\* whatever the arrival order of the frames and the pattern of equal hashes.
C1_WriteOrder ==
  \A k \in 2..Len(WrittenFrames) :
    WrittenFrames[k].timestamp =
      WrittenFrames[k - 1].timestamp + video_params_.time_base

\* Frames were written after a frame had arrived ahead of its turn, on a
\* timeline with duplicates, and a frame is still waiting in the buffer.
C1_Witness ==
  /\ Len(WrittenFrames) >= 2
  /\ cached_frames_ # NoFrames
  /\ \E h \in Hashes : matched_frames_[h] # <<>>

\* C2: when a video-enabled job has emitted its terminal event with success,
\* the WriteFrame requests are exactly the timestamps of [0, length) at the
\* frame step, each written once.
C2_AllFramesOnce ==
  (VideoEnabled /\ Succeeded) =>
     /\ Len(WrittenFrames) = Cardinality(FrameTimes(length, video_params_.time_base))
     /\ \A t \in FrameTimes(length, video_params_.time_base) :
          Cardinality({k \in 1..Len(WrittenFrames) : WrittenFrames[k].timestamp = t}) = 1

\* A video job ended with success on a timeline with four frames, some of
\* them duplicates that are not adjacent to their primary.
C2_Witness ==
  /\ VideoEnabled /\ Succeeded
  /\ Len(WrittenFrames) >= 4
  /\ \E h \in Hashes : \E k \in 1..Len(matched_frames_[h]) :
        matched_frames_[h][k] > Primary(matched_frames_[h][k]) + video_params_.time_base

\* C3: two written frames whose timestamps have the same hash carry the same
\* content, namely the converted rendered value of the earliest timestamp
\* with that hash.
C3_DuplicateContent ==
  /\ \A j, k \in 1..Len(WrittenFrames) :
       time_hash_map[WrittenFrames[j].timestamp] = time_hash_map[WrittenFrames[k].timestamp]
         => Content(WrittenFrames[j]) = Content(WrittenFrames[k])
  /\ \A k \in 1..Len(WrittenFrames) :
       WrittenFrames[k].pixels = RenderedValue(Primary(WrittenFrames[k].timestamp))

\* A duplicate was written from the buffer, after frames of another hash.
C3_Witness ==
  \E j, k \in 1..Len(WrittenFrames) :
    /\ j + 1 < k
    /\ time_hash_map[WrittenFrames[j].timestamp] = time_hash_map[WrittenFrames[k].timestamp]
    /\ time_hash_map[WrittenFrames[j + 1].timestamp] # time_hash_map[WrittenFrames[k].timestamp]

\* C4: after hash completion the render-only requests cover exactly the
\* timestamps that are the earliest with their hash, and every later
\* timestamp is listed in matched_frames_ under its hash.
C4_RenderSet ==
  HashesComplete =>
    /\ RenderCovered = {t \in DOMAIN time_hash_map : Primary(t) = t}
    /\ \A h \in Hashes :
         Range(matched_frames_[h]) =
           {t \in DOMAIN time_hash_map : time_hash_map[t] = h /\ Primary(t) # t}

\* Hash completion on a timeline where three timestamps share one hash,
\* with a different frame between them.
C4_Witness ==
  /\ HashesComplete
  /\ \E h \in Hashes : \E a, b \in Range(matched_frames_[h]) :
        /\ a # b
        /\ \E t \in DOMAIN time_hash_map :
              Primary(a) < t /\ t < b /\ time_hash_map[t] # h

\* C5: ExportEnded is emitted at most once per job, whichever streams are
\* enabled, whether initialization and open succeed or fail, and however
\* the callbacks interleave.
C5_EndedAtMostOnce == ended <= 1

\* A job with both streams has ended with success and the Exporter's
\* deferred delete has run.
C5_Witness ==
  /\ VideoEnabled /\ AudioEnabled
  /\ Succeeded
  /\ ended = 1
  /\ deleted

\* C6: Close is requested from the encoder only in a state where
\* video_done_ and audio_done_ both hold, and no enabled stream has work
\* outstanding: every frame of the timeline is written and the audio write
\* has been answered.
C6_CloseOnlyWhenDone ==
  EncoderCalled("Close") =>
    /\ video_done_ /\ audio_done_
    /\ VideoEnabled =>
         /\ Len(WrittenFrames) = Cardinality(FrameTimes(length, video_params_.time_base))
         /\ frames_due = {} /\ cached_frames_ = NoFrames /\ ~hash_due
    /\ AudioEnabled =>
         /\ EncoderCalled("WriteAudio")
         /\ enc_pending.WriteAudio = 0 /\ sig.AudioComplete = 0
         /\ ~audio_due /\ sig.AudioQueueComplete = 0

\* Close was requested by the last frame write of a job with both streams:
\* the audio stream had finished first.
C6_Witness ==
  /\ VideoEnabled /\ AudioEnabled
  /\ Len(encoder_calls) >= 2
  /\ encoder_calls[Len(encoder_calls)].call = "Close"
  /\ encoder_calls[Len(encoder_calls) - 1].call = "WriteFrame"

\* C7: no render-only request is issued, and no rendered frame is delivered,
\* buffered or written, before the hash-only pass over [0, length) has
\* reported completion; the hash-only request is issued only after the
\* encoder reported a successful open.
C7_HashBeforeRender ==
  /\ (\/ VideoRequests("kRenderOnly") # {}
      \/ frames_due # {}
      \/ cached_frames_ # NoFrames
      \/ WrittenFrames # <<>>)
       => /\ VideoRequests("kHashOnly") # {}
          /\ ~hash_due
          /\ HashesComplete
          /\ DOMAIN time_hash_map = FrameTimes(length, video_params_.time_base)
  /\ \A k \in 1..Len(video_calls) : IsInvalidate(video_calls[k]) =>
        /\ encoder_state \in {"open", "closed"}
        /\ ModeAt(k) = "kHashOnly" => video_calls[k].in = 0 /\ video_calls[k].out = length

\* Frames have been written while the backend still owes rendered frames.
C7_Witness ==
  /\ WrittenFrames # <<>>
  /\ frames_due # {}
  /\ VideoRequests("kRenderOnly") # {}

\* Nothing but Open was asked of the encoder and no InvalidateCache was sent
\* to either backend.
NoRequestsIssued ==
  /\ encoder_calls = <<[call |-> "Open"]>>
  /\ \A k \in 1..Len(video_calls) : ~IsInvalidate(video_calls[k])
  /\ \A k \in 1..Len(audio_calls) : ~IsInvalidate(audio_calls[k])

\* C8: once the encoder has reported that open failed, no InvalidateCache
\* (hash or render, video or audio) and no WriteFrame, WriteAudio or Close
\* is ever issued, and the terminal event fires, once, with
\* GetExportStatus() false and the open-failure message.
C8_OpenFailure ==
  /\ [](encoder_state = "failed" => NoRequestsIssued)
  /\ (encoder_state = "failed") ~>
       [](ended = 1 /\ ~export_status_ /\ export_msg_ = MsgOpenFailed)

\* The terminal event has fired after a failed open of a job with both
\* streams enabled.
C8_Witness ==
  /\ encoder_state = "failed"
  /\ VideoEnabled /\ AudioEnabled
  /\ ended = 1
  /\ export_msg_ = MsgOpenFailed

\* C9: with the event loops, the encoder and the backends fair, a job with
\* video and audio enabled on a timeline of positive length whose encoder
\* has opened eventually has the encoder closed and ExportEnded emitted with
\* status true, whichever stream finishes first.
C9_BothStreamsConverge ==
  (VideoEnabled /\ AudioEnabled /\ length > 0 /\ encoder_state = "open") ~>
     (encoder_state = "closed" /\ ended = 1 /\ export_status_)

\* A job with both streams has ended with success, and its Close was
\* requested on audio completion: the video stream had finished first.
C9_Witness ==
  /\ VideoEnabled /\ AudioEnabled
  /\ encoder_state = "closed" /\ Succeeded
  /\ Len(encoder_calls) >= 2
  /\ encoder_calls[Len(encoder_calls)].call = "Close"
  /\ encoder_calls[Len(encoder_calls) - 1].call = "WriteAudio"

\* C10: a job started with neither stream enabled is a no-op success: once
\* the encoder has opened, ExportEnded is eventually emitted with
\* GetExportStatus() true, and no hash, render or audio request was issued.
C10_NoStreamsSucceeds ==
  /\ [](~VideoEnabled /\ ~AudioEnabled => video_calls = <<>> /\ audio_calls = <<>>)
  /\ (pc = "started" /\ ~VideoEnabled /\ ~AudioEnabled /\ encoder_state = "open")
       ~> (ended >= 1 /\ export_status_)

\* A job started with video but without audio whose Initialize() succeeded.
VideoOnly == EncoderCalled("Open") /\ VideoEnabled /\ ~AudioEnabled

\* Every timestamp of a timeline of positive length has been written.
LastFrameWritten ==
  /\ length > 0
  /\ Len(WrittenFrames) = Cardinality(FrameTimes(length, video_params_.time_base))

\* C11: in a job with video only, nothing is ever asked of the audio backend
\* and no WriteAudio goes to the encoder; the write of the last video frame
\* comes with the Close request, and from there the job reaches ExportEnded
\* with status true.
C11_VideoOnly ==
  /\ [](VideoOnly => audio_calls = <<>> /\ ~EncoderCalled("WriteAudio"))
  /\ [](VideoOnly /\ LastFrameWritten => video_done_ /\ EncoderCalled("Close"))
  /\ (VideoOnly /\ LastFrameWritten) ~> Succeeded

\* A video-only job on a timeline of several frames has ended with success.
C11_Witness ==
  /\ VideoOnly /\ LastFrameWritten
  /\ Len(WrittenFrames) >= 2
  /\ Succeeded
  /\ progress # <<>> /\ progress[Len(progress)] = 100

\* C12: the values emitted through ProgressChanged during a job, those of
\* the frame writes and the final one of the close confirmation, never
\* decrease, for every timeline length and frame step.
C12_ProgressMonotonic ==
  \A k \in 2..Len(progress) : progress[k - 1] <= progress[k]

\* C13: the progress value 100 is emitted on the encoder's close confirmation
\* only: wherever 100 occurs among the emitted values it is the last of them,
\* the encoder has confirmed the close and ExportEnded has been emitted with
\* status true.
C13_HundredOnlyAtEnd ==
  \A k \in 1..Len(progress) : progress[k] = 100 =>
     /\ k = Len(progress)
     /\ encoder_state = "closed"
     /\ Succeeded

\* C14: a call of StartExporting on an Exporter that was started before
\* changes nothing of the running job: once the Exporter is started, no step
\* issues another Open request, adds a connection of the encoder's
\* OpenSucceeded, OpenFailed or AudioComplete signals, takes the expected
\* timestamp back, or resets the status of a job that has succeeded.
C14_StartGuarded ==
  [][pc = "started" =>
       /\ OpenRequests' = OpenRequests
       /\ conn'.OpenSucceeded = conn.OpenSucceeded
       /\ conn'.OpenFailed = conn.OpenFailed
       /\ conn'.AudioComplete = conn.AudioComplete
       /\ waiting_for_frame_' >= waiting_for_frame_
       /\ (export_status_ => export_status_')]_vars

\* C15: frames are converted once per rendered primary, never per
\* duplicate: when the video stream of a job is done, the number of
\* conversions made equals the number of primary frames that were rendered.
C15_ConvertOncePerPrimary ==
  (VideoEnabled /\ HashesComplete /\ video_done_) =>
     conversions = Cardinality(RenderCovered)

\* The number of places of t in the lists of matched_frames_.
Occurrences(t) ==
  Cardinality({p \in Hashes \X (1..MaxLength) :
                 /\ p[2] <= Len(matched_frames_[p[1]])
                 /\ matched_frames_[p[1]][p[2]] = t})

\* C16: after VideoHashesComplete, whatever the hashes, every timestamp
\* occurs at most once in all the lists of matched_frames_ together, and a
\* timestamp inside a requested render range does not occur in them at all.
C16_DuplicateMapDisjoint ==
  HashesComplete =>
    \A t \in FrameTimes(length, video_params_.time_base) :
       /\ Occurrences(t) <= 1
       /\ t \in RenderCovered => Occurrences(t) = 0

\* Hash completion has left two primaries, one of them with two duplicates.
C16_Witness ==
  /\ HashesComplete
  /\ Cardinality(RenderCovered) >= 2
  /\ \E h \in Hashes : Len(matched_frames_[h]) >= 2

\* The places of the WriteAudio requests among the encoder's requests.
WriteAudioCalls ==
  {k \in 1..Len(encoder_calls) : encoder_calls[k].call = "WriteAudio"}

\* C17: a job with audio issues one WriteAudio request, no more; the request
\* comes after the audio backend's QueueComplete that follows a successful
\* open and before any Close request; the audio backend is released with the
\* write and gets no call after it; audio_done_ is set only after the write
\* was handed to the encoder.
C17_AudioWrite ==
  /\ Cardinality(WriteAudioCalls) <= 1
  /\ (AudioEnabled /\ Succeeded) => Cardinality(WriteAudioCalls) = 1
  /\ \A k \in WriteAudioCalls :
        /\ AudioEnabled
        /\ encoder_state \in {"open", "closed"}
        /\ \E c \in 1..Len(audio_calls) : IsInvalidate(audio_calls[c])
        /\ ~audio_due
        /\ \A j \in 1..k : encoder_calls[j].call # "Close"
  /\ (WriteAudioCalls # {}) <=> (audio_backend_ = "released")
  /\ audio_backend_ = "released" =>
        /\ audio_calls[Len(audio_calls)].call = "params"
        /\ Cardinality({c \in 1..Len(audio_calls) :
                          audio_calls[c].call = "CachePathName"}) = 1
  /\ (AudioEnabled /\ audio_done_) => WriteAudioCalls # {}

\* A job with both streams has ended with success; its WriteAudio was
\* requested between two frame writes.
C17_Witness ==
  /\ VideoEnabled /\ AudioEnabled /\ Succeeded
  /\ \E k \in WriteAudioCalls :
        /\ k > 1 /\ k < Len(encoder_calls)
        /\ encoder_calls[k - 1].call = "WriteFrame"
        /\ encoder_calls[k + 1].call = "WriteFrame"

\* C18: with video enabled, in every state after hash completion,
\* video_done_ is true exactly when waiting_for_frame_ has reached or
\* exceeded the timeline length, for every timeline length, zero included.
C18_DoneIffReached ==
  (VideoEnabled /\ HashesComplete) =>
     (video_done_ <=> waiting_for_frame_ >= length)

\* C19: an EncodeFrame call for a timestamp other than waiting_for_frame_
\* stores the value in cached_frames_ under that timestamp and does nothing
\* else: no WriteFrame or Close is queued, no progress is emitted, and
\* waiting_for_frame_, the done flags and export_status_ stay as they were.
\* Stated of every such call that can be made in a state of a running video
\* job.
C19_OutOfOrderOnlyBuffers ==
  (VideoEnabled /\ HashesComplete) =>
    \A t \in FrameTimes(length, video_params_.time_base) \ {waiting_for_frame_} :
    \A u \in FrameTimes(length, video_params_.time_base) :
      \A r \in {EncodeFrame(Self, t, RenderedValue(u))} :
        /\ r.cached_frames_ = With(cached_frames_, t, RenderedValue(u))
        /\ r.encoder_calls = encoder_calls
        /\ r.enc_pending = enc_pending
        /\ r.progress = progress
        /\ r.conversions = conversions
        /\ r.waiting_for_frame_ = waiting_for_frame_
        /\ r.video_done_ = video_done_
        /\ r.audio_done_ = audio_done_
        /\ r.export_status_ = export_status_
        /\ r.conn = conn
        /\ r.video_backend_ = video_backend_

\* A frame that arrived ahead of its turn sits in the buffer and nothing
\* has been written or reported yet.
C19_Witness ==
  /\ VideoEnabled /\ HashesComplete
  /\ cached_frames_ # NoFrames
  /\ WrittenFrames = <<>>
  /\ progress = <<>>
  /\ waiting_for_frame_ = 0
  /\ ~video_done_ /\ ~export_status_

\* The states a FrameRendered call for timestamp time passes through: the
\* one after EncodeFrame for the rendered frame and the ones after each
\* EncodeFrame for a duplicate.
ReturnsOf(time) ==
  LET times == MatchingTimes(matched_frames_, time_hash_map[time])
  IN {EncodeMatching(s1, SubSeq(times, 1, k), RenderedValue(time)) :
        s1 \in {EncodeFrame(Self, time, RenderedValue(time))},
        k \in 0..Len(times)}

\* C20: whenever EncodeFrame returns, cached_frames_ does not hold the key
\* waiting_for_frame_: in every state between two slots, and after each of
\* the EncodeFrame calls of every FrameRendered that can run next.  The
\* frame the Exporter waits for has not been delivered: the backend still
\* owes the rendered frame it comes from.
C20_ExpectedNotBuffered ==
  /\ waiting_for_frame_ \notin DOMAIN cached_frames_
  /\ (HashesComplete /\ video_backend_ = "live") =>
        \A time \in frames_due : \A r \in ReturnsOf(time) :
           r.waiting_for_frame_ \notin DOMAIN r.cached_frames_
  /\ (HashesComplete /\ waiting_for_frame_ \in DOMAIN time_hash_map) =>
        Primary(waiting_for_frame_) \in frames_due

\* A frame has been written, the frame after the expected one waits in the
\* buffer, and the backend is about to deliver the expected one: the
\* EncodeFrame call of that delivery writes both.
C20_Witness ==
  /\ HashesComplete /\ video_backend_ = "live"
  /\ WrittenFrames # <<>>
  /\ waiting_for_frame_ \in frames_due
  /\ (waiting_for_frame_ + video_params_.time_base) \in DOMAIN cached_frames_

====
